---- MODULE Spec2Model ----
(***************************************************************************)
(* A model of lofi_creation.py: the media resolver (_download_media), the  *)
(* duration prober (_probe_duration_seconds), the two encode strategies    *)
(* (_ffmpeg_merge_loop, _ffmpeg_concat_then_merge) and the orchestrator    *)
(* XimiLofiCreation.create_lofi.                                           *)
(*                                                                         *)
(* Python strings are sequences of one-character strings. Durations are    *)
(* integers counting milliseconds (the precision of the "%.3f" the encode  *)
(* command is built with). A float that may be non-finite (the prober's    *)
(* result) is a record [k |-> "fin" | "inf" | "ninf" | "nan", v |-> ms].   *)
(***************************************************************************)
EXTENDS Integers, Sequences, FiniteSets, TLC

----------------------------------------------------------------------------
(* Strings *)

S_slash == <<"/">>
S_video == <<"v", "i", "d", "e", "o">>
S_audio == <<"a", "u", "d", "i", "o">>
S_file == <<"f", "i", "l", "e">>
S_http == <<"h", "t", "t", "p">>
S_https == <<"h", "t", "t", "p", "s">>
S_lofi == <<"l", "o", "f", "i", "_">>
S_mp4 == <<".", "m", "p", "4">>

UpperChars ==
  <<"A", "B", "C", "D", "E", "F", "G", "H", "I", "J", "K", "L", "M",
    "N", "O", "P", "Q", "R", "S", "T", "U", "V", "W", "X", "Y", "Z">>
LowerChars ==
  <<"a", "b", "c", "d", "e", "f", "g", "h", "i", "j", "k", "l", "m",
    "n", "o", "p", "q", "r", "s", "t", "u", "v", "w", "x", "y", "z">>
DigitChars == <<"0", "1", "2", "3", "4", "5", "6", "7", "8", "9">>

Range(s) == {s[k] : k \in DOMAIN s}
AlphaSet == Range(UpperChars) \cup Range(LowerChars)
DigitSet == Range(DigitChars)
WhiteSet == {" ", "\n", "\t"}

\* str.lower() on one character and on a string
LowerChar(c) ==
  IF c \in Range(UpperChars)
    THEN LowerChars[CHOOSE k \in DOMAIN UpperChars : UpperChars[k] = c]
    ELSE c
Lower(s) == [k \in DOMAIN s |-> LowerChar(s[k])]

\* str.find(c) + 1: the first position of a character of cs at or after from, 0 if none
FindFrom(s, cs, from) ==
  IF \E k \in from..Len(s) : s[k] \in cs
    THEN CHOOSE k \in from..Len(s) : s[k] \in cs /\ \A j \in from..(k - 1) : s[j] \notin cs
    ELSE 0
Find(s, cs) == FindFrom(s, cs, 1)
\* str.rfind(c) + 1
RFind(s, cs) ==
  IF \E k \in DOMAIN s : s[k] \in cs
    THEN CHOOSE k \in DOMAIN s : s[k] \in cs /\ \A j \in (k + 1)..Len(s) : s[j] \notin cs
    ELSE 0

\* str.strip(chars)
StripChars(s, cs) ==
  IF \A k \in DOMAIN s : s[k] \in cs
    THEN <<>>
    ELSE LET a == CHOOSE k \in DOMAIN s : s[k] \notin cs /\ \A j \in 1..(k - 1) : s[j] \in cs
             b == CHOOSE k \in DOMAIN s : s[k] \notin cs /\ \A j \in (k + 1)..Len(s) : s[j] \in cs
         IN SubSeq(s, a, b)
\* str.strip()
Strip(s) == StripChars(s, WhiteSet)

StartsWith(s, p) == Len(s) >= Len(p) /\ SubSeq(s, 1, Len(p)) = p

\* str(n) for an integer n >= 0
RECURSIVE StrOfNat(_)
StrOfNat(n) ==
  IF n < 10 THEN <<DigitChars[n + 1]>>
  ELSE StrOfNat(n \div 10) \o <<DigitChars[(n % 10) + 1]>>

----------------------------------------------------------------------------
(* urllib.parse.urlparse, as far as _download_media reads it: the scheme   *)
(* and the path. (Parameters after ";" are not modelled.)                  *)

SchemeChars == AlphaSet \cup DigitSet \cup {"+", "-", "."}

\* Whether url[:i] is taken as a scheme, i the position of the first ":"
HasScheme(url) ==
  LET i == Find(url, {":"})
  IN /\ i > 1
     /\ url[1] \in AlphaSet
     /\ \A k \in 1..(i - 1) : url[k] \in SchemeChars

UrlScheme(url) ==
  IF HasScheme(url) THEN Lower(SubSeq(url, 1, Find(url, {":"}) - 1)) ELSE <<>>

UrlPath(url) ==
  LET rest == IF HasScheme(url) THEN SubSeq(url, Find(url, {":"}) + 1, Len(url)) ELSE url
      afterNetloc ==
        IF StartsWith(rest, <<"/", "/">>)
          THEN LET k == FindFrom(rest, {"/", "?", "#"}, 3)
               IN IF k = 0 THEN <<>> ELSE SubSeq(rest, k, Len(rest))
          ELSE rest
      h == Find(afterNetloc, {"#"})
      noFrag == IF h = 0 THEN afterNetloc ELSE SubSeq(afterNetloc, 1, h - 1)
      q == Find(noFrag, {"?"})
  IN IF q = 0 THEN noFrag ELSE SubSeq(noFrag, 1, q - 1)

----------------------------------------------------------------------------
(* pathlib *)

\* PurePath.name: the last component
PathName(p) == SubSeq(p, RFind(p, {"/"}) + 1, Len(p))

\* PurePath.suffix: from the last "." of the name, unless the name starts or ends with it
PathSuffix(p) ==
  LET name == PathName(p)
      i == RFind(name, {"."})
  IN IF 1 < i /\ i < Len(name) THEN SubSeq(name, i, Len(name)) ELSE <<>>

\* dir / name
PathJoin(dir, name) == dir \o S_slash \o name

\* The working directory of the process
CWD == S_slash

\* Path.resolve(): the absolute form (the model holds no symlinks and no ".." parts)
PathResolve(p) == IF StartsWith(p, S_slash) THEN p ELSE CWD \o p

\* Whether path p lies inside directory dir
Inside(p, dir) == StartsWith(p, dir \o S_slash)

----------------------------------------------------------------------------
(* _safe_filename *)

SafeChars == AlphaSet \cup DigitSet \cup {".", "_", "-"}

\* re.sub(r"[^A-Za-z0-9._-]+", "_", name): every run of other characters becomes one "_"
RECURSIVE SubUnsafeRuns(_)
SubUnsafeRuns(s) ==
  IF s = <<>> THEN <<>>
  ELSE IF s[1] \in SafeChars THEN <<s[1]>> \o SubUnsafeRuns(Tail(s))
  ELSE LET k == FindFrom(s, SafeChars, 1)
       IN <<"_">> \o (IF k = 0 THEN <<>> ELSE SubUnsafeRuns(SubSeq(s, k, Len(s))))

\* _safe_filename(name) at Unix time t (whole seconds)
SafeFilename(name, t) ==
  LET stripped == StripChars(SubUnsafeRuns(name), {".", "_", "-"})
  IN IF stripped # <<>> THEN stripped ELSE StrOfNat(t)

----------------------------------------------------------------------------
(* Floats: float(str), and the comparisons and the division the code makes *)

Fin(ms) == [k |-> "fin", v |-> ms]
FloatInf == [k |-> "inf", v |-> 0]
FloatNegInf == [k |-> "ninf", v |-> 0]
FloatNaN == [k |-> "nan", v |-> 0]
\* float(s) raised ValueError
FloatError == [k |-> "err", v |-> 0]

RECURSIVE DigitsValue(_)
DigitsValue(ds) ==
  IF ds = <<>> THEN 0
  ELSE 10 * DigitsValue(SubSeq(ds, 1, Len(ds) - 1))
       + ((CHOOSE k \in DOMAIN DigitChars : DigitChars[k] = ds[Len(ds)]) - 1)

AllDigits(ds) == \A k \in DOMAIN ds : ds[k] \in DigitSet

\* The milliseconds of a fraction's digits: its first three, padded with zeros
FractionMs(ds) == DigitsValue(SubSeq(ds \o <<"0", "0", "0">>, 1, 3))

\* An unsigned decimal "ddd", "ddd.ddd", "ddd." or ".ddd" (exponents are not modelled;
\* digits after the third fractional one must be zeros for the value to be exact)
UnsignedDecimal(body) ==
  LET dot == Find(body, {"."})
      ip == IF dot = 0 THEN body ELSE SubSeq(body, 1, dot - 1)
      fp == IF dot = 0 THEN <<>> ELSE SubSeq(body, dot + 1, Len(body))
  IN IF AllDigits(ip) /\ AllDigits(fp) /\ Len(ip) + Len(fp) > 0
       THEN Fin(1000 * DigitsValue(ip) + FractionMs(fp))
       ELSE FloatError

\* float(s)
ParseFloat(s) ==
  LET t == Strip(s)
      signed == t # <<>> /\ t[1] \in {"+", "-"}
      neg == t # <<>> /\ t[1] = "-"
      body == Lower(IF signed THEN Tail(t) ELSE t)
      mag == UnsignedDecimal(body)
  IN IF body \in {<<"i", "n", "f">>, <<"i", "n", "f", "i", "n", "i", "t", "y">>}
       THEN (IF neg THEN FloatNegInf ELSE FloatInf)
     ELSE IF body = <<"n", "a", "n">> THEN FloatNaN
     ELSE IF mag.k = "err" THEN FloatError
     ELSE IF neg THEN Fin(0 - mag.v) ELSE mag

\* x <= 0 and x > 0 on floats: both are false of NaN
FloatLeZero(x) == (x.k = "fin" /\ x.v <= 0) \/ x.k = "ninf"
FloatGtZero(x) == (x.k = "fin" /\ x.v > 0) \/ x.k = "inf"

Max(a, b) == IF a >= b THEN a ELSE b

\* a // b, where math.ceil(a / b) was meant
FloorDiv(a, b) == a \div b

\* math.ceil(a / b) for integers a, b with b > 0
CeilDiv(a, b) == 0 - ((0 - a) \div b)

----------------------------------------------------------------------------
(* External processes: what subprocess.run gave                            *)
(*   kind "exit": the tool ran; rc, out, err are its exit code and streams *)
(*   kind "oserror": the tool could not be executed (subprocess.run raised)*)
(*   kind "none": not run                                                  *)
(* wrote: what the encode tool left at its output path ("none", "partial", *)
(* "full").                                                                *)

Proc(kind, rc, out, err, wrote) ==
  [kind |-> kind, rc |-> rc, out |-> out, err |-> err, wrote |-> wrote]
NoProc == Proc("none", 0, <<>>, <<>>, "none")

----------------------------------------------------------------------------
(* _probe_duration_seconds: the value returned for an outcome of ffprobe *)

ProbeDurationSeconds(proc) ==
  IF proc.kind # "exit" \/ proc.rc # 0 THEN Fin(0)
  ELSE LET dur == ParseFloat(proc.out)
       IN IF dur.k = "err" \/ FloatLeZero(dur) THEN Fin(0) ELSE dur

----------------------------------------------------------------------------
(* _ffmpeg_concat_then_merge: the repeats and the concat list *)

Repeats(vdur, duration) ==
  IF FloatGtZero(vdur) /\ duration > 0
    THEN Max(1, IF vdur.k = "inf" THEN 0 ELSE CeilDiv(duration, vdur.v))
    ELSE 1

ConcatList(video_path, repeats) == [k \in 1..repeats |-> video_path]

\* Whether the encode run makes a strategy raise, and the message of the RuntimeError
EncodeFailed(proc) == proc.rc # 0

S_concat_failed == <<"c", "o", "n", "c", "a", "t">>

\* The fallback text alone, the tool's stderr dropped
ErrorMessageFixed(proc, fallback) == fallback

\* proc.stderr.strip() or fallback
ErrorMessage(proc, fallback) == IF Strip(proc.err) # <<>> THEN Strip(proc.err) ELSE fallback

----------------------------------------------------------------------------
(* The file system: fs maps the absolute path of each file to its bytes,   *)
(* dirs is the set of directories.                                         *)

VARIABLES fs, dirs, now, env, tmp, inv

vars == <<fs, dirs, now, env, tmp, inv>>

WriteFile(fsys, p, data) ==
  [q \in (DOMAIN fsys) \cup {p} |-> IF q = p THEN data ELSE fsys[q]]

PathExists(fsys, dset, p) == PathResolve(p) \in (DOMAIN fsys) \cup dset

\* OUTPUT_DIR, the output root
OUTPUT_DIR == <<"/", "o">>

\* time.strftime("%Y%m%d_%H%M%S") at second t: one name per second
Strftime(t) == StrOfNat(t)

----------------------------------------------------------------------------
(* _download_media and the fetchers it calls. The result of a resolution:  *)
(* ok, the error raised (err), the path returned, the file system after    *)
(* it, and the paths it read and wrote (<<>>: none).                       *)

Resolution(ok, err, path, fsys, read, wrote) ==
  [ok |-> ok, err |-> err, path |-> path, fs |-> fsys, read |-> read, wrote |-> wrote]
ResolutionError(err, fsys) == Resolution(FALSE, err, <<>>, fsys, <<>>, <<>>)

DirectExts ==
  { <<".", "m", "p", "4">>, <<".", "m", "o", "v">>, <<".", "m", "k", "v">>,
    <<".", "a", "v", "i">>, <<".", "w", "e", "b", "m">>, <<".", "m", "p", "3">>,
    <<".", "w", "a", "v">>, <<".", "m", "4", "a">>, <<".", "a", "a", "c">>,
    <<".", "f", "l", "a", "c">>, <<".", "o", "g", "g">>, <<".", "o", "p", "u", "s">> }

\* _guess_ext_from_url(url), default ""
GuessExtFromUrl(url) == Lower(PathSuffix(UrlPath(url)))

\* _download_direct removing what a broken transfer left
DownloadDirectCleaning(dest, fsys, net) ==
  IF net = "unavailable" THEN [ok |-> FALSE, err |-> "requests_missing", path |-> <<>>,
                               fs |-> fsys, read |-> <<>>, wrote |-> <<>>]
  ELSE IF net \in {"refused", "broken"}
    THEN [ok |-> FALSE, err |-> IF net = "broken" THEN "stream_error" ELSE "http_error",
          path |-> <<>>, fs |-> fsys, read |-> <<>>,
          wrote |-> IF net = "broken" THEN dest ELSE <<>>]
  ELSE [ok |-> TRUE, err |-> "", path |-> dest,
        fs |-> [q \in (DOMAIN fsys) \cup {dest} |-> IF q = dest THEN "fetched" ELSE fsys[q]],
        read |-> <<>>, wrote |-> dest]

\* _download_direct(url, dest). What a fetch can meet (net): "ok"; "unavailable" (the
\* package cannot be imported); "refused" (no success status, nothing extracted);
\* "broken" (the transfer breaks after the file was opened)
DownloadDirect(dest, fsys, net) ==
  IF net = "unavailable" THEN ResolutionError("requests_missing", fsys)
  ELSE IF net = "refused" THEN ResolutionError("http_error", fsys)
  ELSE IF net = "broken"
    THEN Resolution(FALSE, "stream_error", <<>>, WriteFile(fsys, dest, "partial"), <<>>, dest)
  ELSE Resolution(TRUE, "", dest, WriteFile(fsys, dest, "fetched"), <<>>, dest)

\* The container the extractor chooses
S_webm == <<".", "w", "e", "b", "m">>
S_part == <<".", "p", "a", "r", "t">>

\* _download_with_yt_dlp(url, out_dir, base_name); a broken transfer leaves the
\* extractor's .part file
DownloadWithYtDlp(out_dir, base_name, fsys, net) ==
  LET filename == PathJoin(out_dir, base_name \o S_webm)
  IN IF net = "unavailable" THEN ResolutionError("yt_dlp_missing", fsys)
     ELSE IF net = "refused" THEN ResolutionError("download_error", fsys)
     ELSE IF net = "broken"
       THEN Resolution(FALSE, "download_error", <<>>,
                       WriteFile(fsys, filename \o S_part, "partial"), <<>>, filename \o S_part)
     ELSE Resolution(TRUE, "", filename, WriteFile(fsys, filename, "fetched"), <<>>, filename)

\* The local branch of _download_media
DownloadLocal(url, scheme, out_dir, base, fsys, dset) ==
  LET local_path == IF scheme = S_file THEN UrlPath(url) ELSE url
      src == PathResolve(local_path)
      dest == PathJoin(out_dir, base \o PathSuffix(local_path))
  IN IF ~PathExists(fsys, dset, local_path) THEN ResolutionError("not_found", fsys)
     ELSE IF src # PathResolve(dest)
       THEN (IF src \in dset THEN ResolutionError("is_a_directory", fsys)
             ELSE Resolution(TRUE, "", dest, WriteFile(fsys, dest, fsys[src]), src, dest))
     ELSE Resolution(TRUE, "", dest, fsys, <<>>, <<>>)

\* _download_media(url, out_dir, label, media_type) at second t, the fetch meeting net
DownloadMedia(url, out_dir, label, fsys, dset, t, net) ==
  LET scheme == UrlScheme(url)
      base == SafeFilename(label, t)
      ext == GuessExtFromUrl(url)
  IN IF url = <<>> THEN ResolutionError("empty_url", fsys)
     ELSE IF scheme \in {<<>>, S_file} THEN DownloadLocal(url, scheme, out_dir, base, fsys, dset)
     ELSE IF scheme \in {S_http, S_https}
       THEN (IF ext \in DirectExts
               THEN DownloadDirect(PathJoin(out_dir, base \o ext), fsys, net)
               ELSE DownloadWithYtDlp(out_dir, base, fsys, net))
     ELSE ResolutionError("unsupported_scheme", fsys)

----------------------------------------------------------------------------
(* _require_ffmpeg: the error raised for the tools on PATH ("": none) *)

\* _require_ffmpeg without its second lookup
RequireFfmpegOnly(path) == IF "ffmpeg" \notin path THEN "ffmpeg_not_found" ELSE ""

RequireFfmpeg(path) ==
  IF "ffmpeg" \notin path THEN "ffmpeg_not_found"
  ELSE IF "ffprobe" \notin path THEN "ffprobe_not_found"
  ELSE ""

\* The executables _require_ffmpeg looks up, in order
RequireFfmpegLookups(path) ==
  IF "ffmpeg" \notin path THEN <<"which_ffmpeg">> ELSE <<"which_ffmpeg", "which_ffprobe">>

\* duration_seconds < 0, where <= 0 was meant
DurationNegative(duration) == duration < 0

\* create_lofi's check of duration_seconds
DurationInvalid(duration) == duration <= 0

\* Whether a strategy raises: subprocess.run raised, or the exit code is not 0
StrategyRaises(proc) == proc.kind = "oserror" \/ EncodeFailed(proc)

\* The exception of a strategy that raises
StrategyError(proc) == IF proc.kind = "oserror" THEN "os_error" ELSE "runtime_error"

\* except RuntimeError, where except Exception is written
FallsBackOnExitCodeOnly(proc) == proc.kind = "exit" /\ proc.rc # 0

\* Whether create_lofi falls back to _ffmpeg_concat_then_merge (except Exception)
FallsBack(proc) == StrategyRaises(proc)

----------------------------------------------------------------------------
(* The outcomes of the external tools and of the network *)

E_msg == <<"e", "r", "r", "\n">>
E_other == <<" ", "x", " ">>
E_blank == <<" ", "\n">>

\* What a run of ffmpeg can come to
EncodeOutcomes ==
  { Proc("exit", 0, <<>>, <<>>, "full"),
    Proc("exit", 1, <<>>, E_msg, "none"),
    Proc("exit", 1, <<>>, E_other, "partial"),
    Proc("exit", 1, <<>>, E_blank, "none"),
    Proc("exit", -9, <<>>, <<>>, "partial"),
    Proc("oserror", 0, <<>>, <<>>, "none") }

\* What a run of ffprobe can come to
ProbeOutcomes ==
  { Proc("oserror", 0, <<>>, <<>>, "none"),
    Proc("exit", 1, <<>>, E_msg, "none"),
    Proc("exit", 0, <<"1", "0", ".", "0", "0", "0", "0", "0", "0", "\n">>, <<>>, "none"),
    Proc("exit", 0, <<"6", "0", ".", "5", "\n">>, <<>>, "none"),
    Proc("exit", 0, <<"N", "/", "A", "\n">>, <<>>, "none"),
    Proc("exit", 0, <<>>, <<>>, "none"),
    Proc("exit", 0, <<"0", ".", "0", "0", "0", "0", "0", "0", "\n">>, <<>>, "none"),
    Proc("exit", 0, <<"-", "1", ".", "5", "\n">>, <<>>, "none"),
    Proc("exit", 0, <<"i", "n", "f", "\n">>, <<>>, "none"),
    Proc("exit", 0, <<"n", "a", "n", "\n">>, <<>>, "none") }

NetOutcomes == {"ok", "unavailable", "refused", "broken"}

\* The environment of a behaviour: path, the tools on PATH, and world, what the tools and
\* the network may do: "any" (every outcome above) or "plain" (ffmpeg works or fails
\* with a message, ffprobe reports 10 s, every fetch succeeds)
EncodeRuns(world) ==
  IF world = "any" THEN EncodeOutcomes
  ELSE {Proc("exit", 0, <<>>, <<>>, "full"), Proc("exit", 1, <<>>, E_msg, "none")}
ProbeRuns(world) ==
  IF world = "any" THEN ProbeOutcomes
  ELSE {Proc("exit", 0, <<"1", "0", ".", "0", "0", "0", "0", "0", "0", "\n">>, <<>>, "none")}
Fetches(world) == IF world = "any" THEN NetOutcomes ELSE {"ok"}

----------------------------------------------------------------------------
(* Invocations of create_lofi. Each is a record: its arguments, its local  *)
(* variables, its position pc, what it raised or returned, and trace, the  *)
(* history of its lookups, resolutions, tool runs and of the files it read *)
(* and wrote.                                                              *)

Invocations == {1, 2}

\* The bound of the clock
MaxTime == 2

Event(op, path) == [op |-> op, path |-> path]

\* The events of reading and writing paths (<<>>: none)
FileEvents(read, wrote) ==
  (IF read = <<>> THEN <<>> ELSE <<Event("read", read)>>)
    \o (IF wrote = <<>> THEN <<>> ELSE <<Event("write", wrote)>>)

Call(video_str, audio_str, duration_seconds) ==
  [ pc |-> "start", video_str |-> video_str, audio_str |-> audio_str,
    duration |-> duration_seconds,
    session_second |-> 0, session_dir |-> <<>>, video_local |-> <<>>, audio_local |-> <<>>, out_path |-> <<>>,
    procA |-> NoProc, procP |-> NoProc, procB |-> NoProc,
    vdur |-> Fin(0), repeats |-> 0,
    raised |-> "", message |-> <<>>, returned |-> <<>>, trace |-> <<>> ]

\* No call
Idle == [Call(<<>>, <<>>, 0) EXCEPT !.pc = "off"]

Raise(c, err, message) == [c EXCEPT !.pc = "done", !.raised = err, !.message = message]

\* if duration_seconds <= 0: raise ValueError
ValidateDuration(i) ==
  /\ inv[i].pc = "start"
  /\ inv' = [inv EXCEPT ![i] =
       IF DurationInvalid(@.duration) THEN Raise(@, "invalid_duration", <<>>)
       ELSE [@ EXCEPT !.pc = "require"]]
  /\ UNCHANGED <<fs, dirs, now, env, tmp>>

\* _require_ffmpeg()
CheckTools(i) ==
  /\ inv[i].pc = "require"
  /\ LET looked == [k \in DOMAIN RequireFfmpegLookups(env.path) |->
                      Event(RequireFfmpegLookups(env.path)[k], <<>>)]
         c == [inv[i] EXCEPT !.trace = @ \o looked]
     IN inv' = [inv EXCEPT ![i] =
          IF RequireFfmpeg(env.path) # "" THEN Raise(c, RequireFfmpeg(env.path), <<>>)
          ELSE [c EXCEPT !.pc = "mkdir"]]
  /\ UNCHANGED <<fs, dirs, now, env, tmp>>

\* A session directory that does not depend on the second
SessionDirShared(t) == OUTPUT_DIR \o S_slash \o <<"s">>

\* The session directory of a call that starts at second t
SessionDir(t) == PathJoin(OUTPUT_DIR, Strftime(t))

\* session_dir = OUTPUT_DIR / time.strftime(...); session_dir.mkdir(parents, exist_ok)
MakeSessionDir(i) ==
  /\ inv[i].pc = "mkdir"
  /\ dirs' = dirs \cup {SessionDir(now)}
  /\ inv' = [inv EXCEPT ![i] =
       [@ EXCEPT !.pc = "video", !.session_second = now, !.session_dir = SessionDir(now),
                 !.trace = Append(@, Event("mkdir", SessionDir(now)))]]
  /\ UNCHANGED <<fs, now, env, tmp>>

\* video_local = _download_media(video_str, session_dir, "video", "video")
ResolveVideo(i) ==
  /\ inv[i].pc = "video"
  /\ \E net \in Fetches(env.world) :
       \E r \in {DownloadMedia(inv[i].video_str, inv[i].session_dir, S_video, fs, dirs, now, net)} :
         \E c \in {[inv[i] EXCEPT !.trace =
                     @ \o <<Event("resolve_video", <<>>)>> \o FileEvents(r.read, r.wrote)]} :
           /\ fs' = r.fs
           /\ inv' = [inv EXCEPT ![i] =
                IF r.ok THEN [c EXCEPT !.pc = "audio", !.video_local = r.path]
                ELSE Raise(c, r.err, <<>>)]
  /\ UNCHANGED <<dirs, now, env, tmp>>

\* audio_local = _download_media(audio_str, session_dir, "audio", "audio")
ResolveAudio(i) ==
  /\ inv[i].pc = "audio"
  /\ \E net \in Fetches(env.world) :
       \E r \in {DownloadMedia(inv[i].audio_str, inv[i].session_dir, S_audio, fs, dirs, now, net)} :
         \E c \in {[inv[i] EXCEPT !.trace =
                     @ \o <<Event("resolve_audio", <<>>)>> \o FileEvents(r.read, r.wrote)]} :
           /\ fs' = r.fs
           /\ inv' = [inv EXCEPT ![i] =
                IF r.ok THEN [c EXCEPT !.pc = "name", !.audio_local = r.path]
                ELSE Raise(c, r.err, <<>>)]
  /\ UNCHANGED <<dirs, now, env, tmp>>

\* out_path = session_dir / f"lofi_{int(time.time())}.mp4"
OutPath(session_dir, t) == PathJoin(session_dir, S_lofi \o StrOfNat(t) \o S_mp4)

ChooseOutPath(i) ==
  /\ inv[i].pc = "name"
  /\ inv' = [inv EXCEPT ![i] =
       [@ EXCEPT !.pc = "merge", !.out_path = OutPath(inv[i].session_dir, now)]]
  /\ UNCHANGED <<fs, dirs, now, env, tmp>>

\* The file system after an encode run that was to write out_path
Encoded(fsys, out_path, proc) ==
  IF proc.wrote = "full" THEN WriteFile(fsys, out_path, "mp4")
  ELSE IF proc.wrote = "partial" THEN WriteFile(fsys, out_path, "partial")
  ELSE fsys

\* The events of an encode run: the run, its inputs read, its output written
EncodeEvents(op, c, proc) ==
  <<Event(op, <<>>)>>
    \o (IF proc.kind = "exit"
          THEN <<Event("read", c.video_local), Event("read", c.audio_local)>> ELSE <<>>)
    \o (IF proc.wrote # "none" THEN <<Event("write", c.out_path)>> ELSE <<>>)

\* try: _ffmpeg_merge_loop(...) except Exception: (the fallback)
MergeLoop(i) ==
  /\ inv[i].pc = "merge"
  /\ \E proc \in EncodeRuns(env.world) :
       /\ fs' = Encoded(fs, inv[i].out_path, proc)
       /\ inv' = [inv EXCEPT ![i] =
            [@ EXCEPT !.pc = IF FallsBack(proc) THEN "probe" ELSE "wrap",
                      !.procA = proc,
                      !.trace = @ \o EncodeEvents("run_A", inv[i], proc)]]
  /\ UNCHANGED <<dirs, now, env, tmp>>

\* _ffmpeg_concat_then_merge: vdur = _probe_duration_seconds(video_path), and repeats
ProbeVideo(i) ==
  /\ inv[i].pc = "probe"
  /\ \E proc \in ProbeRuns(env.world) :
       inv' = [inv EXCEPT ![i] =
         [@ EXCEPT !.pc = "list", !.procP = proc,
                   !.vdur = ProbeDurationSeconds(proc),
                   !.repeats = Repeats(ProbeDurationSeconds(proc), inv[i].duration),
                   !.trace = Append(@, Event("probe", <<>>))]]
  /\ UNCHANGED <<fs, dirs, now, env, tmp>>

\* _ffmpeg_concat_then_merge: concat_list.txt written in a temporary directory of its own
WriteConcatList(i) ==
  /\ inv[i].pc = "list"
  /\ tmp' = [tmp EXCEPT ![i] = ConcatList(inv[i].video_local, inv[i].repeats)]
  /\ inv' = [inv EXCEPT ![i].pc = "concat"]
  /\ UNCHANGED <<fs, dirs, now, env>>

\* _ffmpeg_concat_then_merge: the encode run; the temporary directory is removed
ConcatThenMerge(i) ==
  /\ inv[i].pc = "concat"
  /\ \E proc \in EncodeRuns(env.world) :
       LET c == [inv[i] EXCEPT !.procB = proc,
                               !.trace = @ \o EncodeEvents("run_B", inv[i], proc)]
       IN /\ fs' = Encoded(fs, inv[i].out_path, proc)
          /\ inv' = [inv EXCEPT ![i] =
               IF StrategyRaises(proc)
                 THEN Raise(c, StrategyError(proc),
                            IF proc.kind = "exit" THEN ErrorMessage(proc, S_concat_failed)
                            ELSE <<>>)
               ELSE [c EXCEPT !.pc = "wrap"]]
  /\ tmp' = [tmp EXCEPT ![i] = <<>>]
  /\ UNCHANGED <<dirs, now, env>>

\* return (VideoFromFile(str(out_path)),)
Return(i) ==
  /\ inv[i].pc = "wrap"
  /\ inv' = [inv EXCEPT ![i] = [@ EXCEPT !.pc = "done", !.returned = inv[i].out_path]]
  /\ UNCHANGED <<fs, dirs, now, env, tmp>>

\* A second passes
Tick ==
  /\ now < MaxTime
  /\ now' = now + 1
  /\ UNCHANGED <<fs, dirs, env, tmp, inv>>

Step(i) ==
  \/ ValidateDuration(i)
  \/ CheckTools(i)
  \/ MakeSessionDir(i)
  \/ ResolveVideo(i)
  \/ ResolveAudio(i)
  \/ ChooseOutPath(i)
  \/ MergeLoop(i)
  \/ ProbeVideo(i)
  \/ WriteConcatList(i)
  \/ ConcatThenMerge(i)
  \/ Return(i)

Next == Tick \/ \E i \in Invocations : Step(i)

----------------------------------------------------------------------------
(* The references, the durations and the files of the model *)

REF_LOCAL == <<"/", "a", ".", "m", "p", "4">>
REF_NO_EXT == <<"/", "r">>
REF_MISSING == <<"/", "n", ".", "m", "p", "4">>
REF_DRIVE == <<"c", ":", "/", "a", ".", "m", "p", "4">>
REF_FILE_URL == <<"f", "i", "l", "e", ":", "/", "/", "/", "a", ".", "m", "p", "4">>
REF_DIRECT == <<"H", "T", "T", "P", ":", "/", "/", "h", "/", "V", ".", "M", "P", "4", "?", "q">>
REF_INDIRECT == <<"h", "t", "t", "p", "s", ":", "/", "/", "h", "/", "w">>
REF_FTP == <<"f", "t", "p", ":", "/", "/", "h", "/", "a", ".", "m", "p", "4">>
REF_DIRECTORY == OUTPUT_DIR
REF_AUDIO == <<"/", "b", ".", "m", "p", "3">>
REF_AUDIO_URL == <<"h", "t", "t", "p", ":", "/", "/", "h", "/", "s", ".", "o", "g", "g">>
\* The video file of the session of second 1, and a relative path to it
REF_SESSION == PathJoin(SessionDir(1), S_video \o S_mp4)
REF_SESSION_REL == Tail(REF_SESSION)

VideoRefs ==
  { <<>>, REF_LOCAL, REF_NO_EXT, REF_MISSING, REF_DRIVE, REF_FILE_URL, REF_DIRECT,
    REF_INDIRECT, REF_FTP, REF_DIRECTORY }
AudioRefs == { <<>>, REF_AUDIO, REF_MISSING, REF_AUDIO_URL }

\* Milliseconds: -1 s, 0, 1 s, 35 s, and one second more than INPUT_TYPES' max of 6 h
Durations == { -1000, 0, 1000, 35000, 21601000 }

\* The files there are before any call; "/c:/a.mp4" is what "c:/a.mp4" names in CWD
InitialFiles ==
  (REF_LOCAL :> "video-a") @@ (REF_NO_EXT :> "video-r")
    @@ (PathResolve(REF_DRIVE) :> "video-c") @@ (REF_AUDIO :> "audio-b")

\* One call, of any arguments, in any environment
Init ==
  /\ fs = InitialFiles
  /\ dirs = {S_slash, OUTPUT_DIR}
  /\ now = 1
  /\ \E path \in SUBSET {"ffmpeg", "ffprobe"} :
       env = [path |-> path, world |-> "any"]
  /\ tmp = [i \in Invocations |-> <<>>]
  /\ \E v \in VideoRefs, a \in AudioRefs, d \in Durations :
       inv = [i \in Invocations |-> IF i = 1 THEN Call(v, a, d) ELSE Idle]

Spec == Init /\ [][Next]_vars

\* Two calls that may interleave, of local files and of the session's own video file
InitTwo ==
  /\ fs = InitialFiles
  /\ dirs = {S_slash, OUTPUT_DIR}
  /\ now = 1
  /\ env = [path |-> {"ffmpeg", "ffprobe"}, world |-> "plain"]
  /\ tmp = [i \in Invocations |-> <<>>]
  /\ \E v1 \in {REF_LOCAL, REF_DIRECT}, v2 \in {REF_LOCAL, REF_SESSION, REF_SESSION_REL} :
       inv = [i \in Invocations |->
                IF i = 1 THEN Call(v1, REF_AUDIO, 35000) ELSE Call(v2, REF_AUDIO, 35000)]

SpecTwo == InitTwo /\ [][Next]_vars

----------------------------------------------------------------------------
(* What the properties read off an invocation *)

Count(c, op) == Cardinality({k \in DOMAIN c.trace : c.trace[k].op = op})
Ran(c, op) == Count(c, op) > 0
Position(c, op) == CHOOSE k \in DOMAIN c.trace : c.trace[k].op = op
Written(c) == {c.trace[k].path : k \in {n \in DOMAIN c.trace : c.trace[n].op = "write"}}
ReadPaths(c) == {c.trace[k].path : k \in {n \in DOMAIN c.trace : c.trace[n].op = "read"}}

ExitedNonZero(proc) == proc.kind = "exit" /\ proc.rc # 0
ExitedZero(proc) == proc.kind = "exit" /\ proc.rc = 0
CouldNotRun(proc) == proc.kind = "oserror"

\* Nothing on disk has changed since the start
DiskUntouched == fs = InitialFiles /\ dirs = {S_slash, OUTPUT_DIR}

\* The file a local reference names
ReferencedFile(url) == PathResolve(IF UrlScheme(url) = S_file THEN UrlPath(url) ELSE url)

\* INPUT_TYPES: "min": 1.0, "max": 60*60*6, in milliseconds
DURATION_MIN_MS == 1000
DURATION_MAX_MS == 21600000

----------------------------------------------------------------------------
(* C1 *)

\* The parts of C1 that do not depend on why Strategy A failed: A is run exactly once,
\* B at most once, and when A exits non-zero and B exits zero the call returns the
\* output path and raises nothing
C1_Common(c) ==
  /\ c.procA.kind # "none" =>
        /\ Count(c, "run_A") = 1
        /\ Count(c, "run_B") <= 1
  /\ Count(c, "run_A") <= 1
  /\ (ExitedNonZero(c.procA) /\ ExitedZero(c.procB) /\ c.pc = "done") =>
        /\ c.returned = c.out_path
        /\ c.returned # <<>>
        /\ c.raised = ""

\* C1 as claimed: Strategy A is run exactly once, Strategy B at most once and if and
\* only if Strategy A exited non-zero, and A non-zero then B zero returns the artifact
\* with no error. (Violated: B also runs when ffmpeg could not be executed for A.)
C1_FallbackIffNonZeroExit ==
  \A i \in Invocations :
    /\ C1_Common(inv[i])
    /\ Ran(inv[i], "run_B") => ExitedNonZero(inv[i].procA)
    /\ (ExitedNonZero(inv[i].procA) /\ inv[i].pc = "done") => Ran(inv[i], "run_B")

\* C1 amended: Strategy A is run exactly once, Strategy B at most once and if and only
\* if the run of Strategy A failed (exited non-zero or could not be executed), and A
\* non-zero then B zero returns the artifact with no error
C1_FallbackIffFailed ==
  \A i \in Invocations :
    /\ C1_Common(inv[i])
    /\ Ran(inv[i], "run_B") => (ExitedNonZero(inv[i].procA) \/ CouldNotRun(inv[i].procA))
    /\ ((ExitedNonZero(inv[i].procA) \/ CouldNotRun(inv[i].procA)) /\ inv[i].pc = "done")
         => Ran(inv[i], "run_B")
    /\ (ExitedZero(inv[i].procA) /\ inv[i].pc = "done")
         => (~Ran(inv[i], "run_B") /\ inv[i].returned = inv[i].out_path)

\* A call that returned after Strategy A exited non-zero and Strategy B exited zero
C1_Witness ==
  \E i \in Invocations :
    /\ inv[i].pc = "done" /\ inv[i].returned # <<>>
    /\ ExitedNonZero(inv[i].procA) /\ ExitedZero(inv[i].procB)

----------------------------------------------------------------------------
(* C2 *)

\* C2: when Strategy A and Strategy B both exit non-zero, the call ends with the
\* RuntimeError of Strategy B, whose message is the stderr of the Strategy B run without
\* its surrounding whitespace (the fixed text when that stderr is blank), and returns
\* nothing
C2_BothFailRaises ==
  \A i \in Invocations :
    (ExitedNonZero(inv[i].procA) /\ ExitedNonZero(inv[i].procB)) =>
       /\ inv[i].pc = "done"
       /\ inv[i].raised = "runtime_error"
       /\ inv[i].returned = <<>>
       /\ inv[i].message =
            IF Strip(inv[i].procB.err) = <<>> THEN S_concat_failed
            ELSE Strip(inv[i].procB.err)

\* Both strategies exited non-zero, with different diagnostics
C2_Witness ==
  \E i \in Invocations :
    /\ ExitedNonZero(inv[i].procA) /\ ExitedNonZero(inv[i].procB)
    /\ Strip(inv[i].procB.err) # <<>>
    /\ inv[i].procA.err # inv[i].procB.err
    /\ inv[i].raised = "runtime_error"

----------------------------------------------------------------------------
(* C3 *)

\* C3: a call with duration_seconds <= 0 ends with the invalid-duration error, having
\* looked up no tool, made no directory, resolved no reference, run no tool and left the
\* disk as it was
C3_InvalidDurationFirst ==
  \A i \in Invocations :
    (inv[i].duration <= 0 /\ inv[i].pc \notin {"start", "off"}) =>
       /\ inv[i].pc = "done"
       /\ inv[i].raised = "invalid_duration"
       /\ inv[i].returned = <<>>
       /\ inv[i].trace = <<>>
       /\ inv[i].session_dir = <<>>
       /\ DiskUntouched

\* A call with duration_seconds = 0 has ended
C3_Witness ==
  \E i \in Invocations :
    inv[i].duration = 0 /\ inv[i].pc = "done" /\ inv[i].raised = "invalid_duration"

----------------------------------------------------------------------------
(* C4 *)

\* C4: with a valid duration and ffmpeg or ffprobe not on PATH, the call ends with the
\* dependency error that names a tool that is missing (one error per tool), before any
\* session directory is made or reference resolved, the disk left as it was
C4_MissingToolFirst ==
  \A i \in Invocations :
    (/\ inv[i].duration > 0
     /\ inv[i].pc \notin {"start", "require", "off"}
     /\ {"ffmpeg", "ffprobe"} \ env.path # {}) =>
       /\ inv[i].pc = "done"
       /\ inv[i].raised \in {"ffmpeg_not_found", "ffprobe_not_found"}
       /\ inv[i].raised = "ffmpeg_not_found" => "ffmpeg" \notin env.path
       /\ inv[i].raised = "ffprobe_not_found" => "ffprobe" \notin env.path
       /\ inv[i].returned = <<>>
       /\ inv[i].session_dir = <<>>
       /\ \A k \in DOMAIN inv[i].trace :
            inv[i].trace[k].op \in {"which_ffmpeg", "which_ffprobe"}
       /\ DiskUntouched

\* A call has ended because ffprobe alone is missing
C4_Witness ==
  \E i \in Invocations :
    /\ inv[i].pc = "done" /\ inv[i].raised = "ffprobe_not_found"
    /\ "ffmpeg" \in env.path /\ "ffprobe" \notin env.path

----------------------------------------------------------------------------
(* C5 *)

VideoFailed(c) == Ran(c, "resolve_video") /\ c.video_local = <<>>
AudioFailed(c) == Ran(c, "resolve_audio") /\ c.audio_local = <<>>

\* C5: the video reference is resolved (to a file named video...) before the audio
\* reference (to a file named audio...), and the audio one only after the video one
\* succeeded; when either resolution fails the call ends with
\* an error, no encode strategy or probe is run, nothing is returned, and every file the
\* call wrote and its session directory are still there
C5_ResolutionFailFast ==
  \A i \in Invocations :
    /\ Ran(inv[i], "resolve_audio") =>
         /\ Ran(inv[i], "resolve_video")
         /\ Position(inv[i], "resolve_video") < Position(inv[i], "resolve_audio")
         /\ inv[i].video_local # <<>>
    /\ inv[i].video_local # <<>> =>
         /\ Inside(inv[i].video_local, inv[i].session_dir)
         /\ StartsWith(PathName(inv[i].video_local), S_video)
    /\ inv[i].audio_local # <<>> =>
         /\ Inside(inv[i].audio_local, inv[i].session_dir)
         /\ StartsWith(PathName(inv[i].audio_local), S_audio)
    /\ (VideoFailed(inv[i]) \/ AudioFailed(inv[i])) =>
         /\ inv[i].pc = "done"
         /\ inv[i].raised # ""
         /\ inv[i].returned = <<>>
         /\ ~Ran(inv[i], "run_A") /\ ~Ran(inv[i], "run_B") /\ ~Ran(inv[i], "probe")
         /\ inv[i].session_dir \in dirs
         /\ Written(inv[i]) \subseteq DOMAIN fs

\* The audio resolution failed after the video file was written: the file is still there
C5_Witness ==
  \E i \in Invocations :
    /\ AudioFailed(inv[i])
    /\ inv[i].video_local \in Written(inv[i])
    /\ inv[i].video_local \in DOMAIN fs
    /\ \E p \in Written(inv[i]) : fs[p] = "partial"

----------------------------------------------------------------------------
(* C6 *)

\* C6 as claimed: a video reference that is the path of an existing file resolves to
\* <session directory>/video<the path's extension>, holding the bytes of that file, the
\* file itself unchanged. (Violated by a path that urlparse reads a scheme from.)
C6_LocalPathResolves ==
  \A i \in Invocations :
    (/\ Ran(inv[i], "resolve_video")
     /\ inv[i].video_str # <<>>
     /\ PathResolve(inv[i].video_str) \in DOMAIN InitialFiles) =>
       /\ inv[i].video_local =
            PathJoin(inv[i].session_dir, S_video \o PathSuffix(inv[i].video_str))
       /\ inv[i].video_local \in DOMAIN fs
       /\ fs[inv[i].video_local] = InitialFiles[PathResolve(inv[i].video_str)]
       /\ fs[PathResolve(inv[i].video_str)] = InitialFiles[PathResolve(inv[i].video_str)]

----------------------------------------------------------------------------
(* C7 *)

\* C7: once Strategy B has probed the video, repeats is the least n >= 1 with
\* n * videoDuration >= targetDuration when the probed duration is a positive number
\* (4 for a 10 s video and a 35 s target), and 1 when the probe gave the sentinel 0.0 or
\* one loop covers the target; the concat list holds repeats entries, each the video file
C7_Repeats ==
  \A i \in Invocations :
    /\ inv[i].procP.kind # "none" =>
         /\ inv[i].repeats >= 1
         /\ (inv[i].vdur.k = "fin" /\ inv[i].vdur.v > 0) =>
              /\ inv[i].repeats * inv[i].vdur.v >= inv[i].duration
              /\ inv[i].repeats > 1 =>
                   (inv[i].repeats - 1) * inv[i].vdur.v < inv[i].duration
              /\ inv[i].duration <= inv[i].vdur.v => inv[i].repeats = 1
              /\ (inv[i].vdur.v = 10000 /\ inv[i].duration = 35000) => inv[i].repeats = 4
         /\ inv[i].vdur = Fin(0) => inv[i].repeats = 1
    /\ inv[i].pc = "concat" =>
         /\ Len(tmp[i]) = inv[i].repeats
         /\ \A k \in DOMAIN tmp[i] : tmp[i][k] = inv[i].video_local

\* The concat list of a 10 s video for a 35 s target is written: 4 entries
C7_Witness ==
  \E i \in Invocations :
    /\ inv[i].pc = "concat"
    /\ inv[i].vdur = Fin(10000) /\ inv[i].duration = 35000
    /\ Len(tmp[i]) = 4

----------------------------------------------------------------------------
(* C8 *)

\* C8 as claimed: of any two calls, neither reads nor writes a file inside the session
\* directory of the other. (Violated: two calls of the same second share the directory.)
C8_NeverTouchesOtherSession ==
  \A i, j \in Invocations :
    (i # j /\ inv[i].session_dir # <<>> /\ inv[j].session_dir # <<>>) =>
       \A p \in Written(inv[i]) \cup ReadPaths(inv[i]) : ~Inside(p, inv[j].session_dir)

\* C8 amended: two calls whose session directories were named in different seconds have
\* different session directories; each writes only inside its own, never inside the
\* other's, and reads a file of the other's only when its own reference names that file;
\* when both return, they return different files, both on disk
C8_DistinctSecondsIsolated ==
  \A i, j \in Invocations :
    /\ inv[i].session_dir # <<>> =>
         \A p \in Written(inv[i]) : Inside(p, inv[i].session_dir)
    /\ (/\ i # j
        /\ inv[i].session_second # 0 /\ inv[j].session_second # 0
        /\ inv[i].session_second # inv[j].session_second) =>
          /\ inv[i].session_dir # inv[j].session_dir
          /\ \A p \in Written(inv[i]) : ~Inside(p, inv[j].session_dir)
          /\ \A p \in ReadPaths(inv[i]) :
               Inside(p, inv[j].session_dir) =>
                 p \in {ReferencedFile(inv[i].video_str), ReferencedFile(inv[i].audio_str)}
          /\ (inv[i].returned # <<>> /\ inv[j].returned # <<>>) =>
               /\ inv[i].returned # inv[j].returned
               /\ {inv[i].returned, inv[j].returned} \subseteq DOMAIN fs

\* Two calls of different seconds have both returned
C8_Witness ==
  /\ inv[1].session_second # inv[2].session_second
  /\ \A i \in Invocations : inv[i].pc = "done" /\ inv[i].returned # <<>>
  /\ Ran(inv[1], "run_B")

----------------------------------------------------------------------------
(* C9 *)

\* C9 as claimed: a call that has made its session directory, resolved a reference or
\* run the encode tool has a duration_seconds within 1 to 21600. (Violated: create_lofi
\* checks the duration against 0 alone.)
C9_DurationInRange ==
  \A i \in Invocations :
    (inv[i].session_dir # <<>> \/ Ran(inv[i], "resolve_video") \/ Ran(inv[i], "run_A")) =>
       (DURATION_MIN_MS <= inv[i].duration /\ inv[i].duration <= DURATION_MAX_MS)

----------------------------------------------------------------------------
(* C10 *)

\* Whether ffprobe's output is a finite positive number
FinitePositive(out) == ParseFloat(out).k = "fin" /\ ParseFloat(out).v > 0

\* C10 as claimed: the prober returns 0.0 when ffprobe exits non-zero, cannot be run or
\* prints what is not a finite positive number, and the number printed otherwise.
\* (Violated: "inf" and "nan" are returned as they are.)
C10_ProbeSentinel ==
  \A i \in Invocations :
    inv[i].procP.kind # "none" =>
      inv[i].vdur =
        IF ExitedZero(inv[i].procP) /\ FinitePositive(inv[i].procP.out)
          THEN ParseFloat(inv[i].procP.out)
          ELSE Fin(0)

====
